---------------------------- MODULE Spec2Model ----------------------------
(***************************************************************************)
(* A model of the keyboard wavetable synthesizer in main.py: the wavetable *)
(* generator, the linear interpolator, the wavetable oscillator, the voice *)
(* and the key-event loop of main().                                       *)
(*                                                                         *)
(* Floating-point numbers are modelled as integers counted in units of     *)
(* 1/Scale with a mantissa of MantBits significant bits: every arithmetic  *)
(* result is rounded to the nearest such number (ties to even), as the     *)
(* IEEE doubles of the program are, only with fewer bits.                  *)
(***************************************************************************)
EXTENDS Integers, Sequences, FiniteSets, TLC

VARIABLES
    oscillators,   \* synth.oscillators: the voice's oscillator bank
    sample,        \* the value returned by the last get_sample / interpolator call
    err,           \* the exception raised by the last operation, or "none"
    op,            \* the last operation performed: its name and its argument
                   \* (the frequency assigned, the octave asked for, the
                   \* Sound faded out)
    n_calls,       \* history: get_sample calls since the phase was 0 under the
                   \* current positive frequency (-1: not tracked)
    call,          \* the arguments of the function call being made
    result,        \* what that call returned or raised
    current_octave,    \* main(): the octave the note keys play in
    current_waveform,  \* main(): the waveform selected
    held_notes,    \* main(): key -> the Sound started by the key's note-on
    sounds,        \* every Sound object made, in order, with the calls on it
    note_number,   \* main(): the MIDI note of the latest note-on
    running        \* main(): the loop flag; "exited" after pygame.quit()

vars == <<oscillators, sample, err, op, n_calls, call, result,
          current_octave, current_waveform, held_notes, sounds, note_number,
          running>>

\* the variables of main()
appVars == <<current_octave, current_waveform, held_notes, sounds, note_number,
             running>>

---------------------------------------------------------------------------
(* Bounds of the model *)

\* fractional bits of the modelled floats: one unit is 1/2^FracBits
FracBits == 8
\* significant bits of the modelled floats (53 in the program's doubles)
MantBits == 8
\* the oscillator's table length (main() uses 64)
wavetable_size == 4
\* samples per second (main() uses 44100)
sampling_rate == 2
\* the longest run of get_sample calls whose count is tracked
MaxCalls == 12
\* the longest table, block and fade window of the calls made directly
MaxLen == 3
\* the most Sound objects main() makes in one run of the model
MaxSounds == 2

---------------------------------------------------------------------------
(* Floating-point arithmetic *)

RECURSIVE Pow2(_)
Pow2(n) == IF n <= 0 THEN 1 ELSE 2 * Pow2(n - 1)

Scale == Pow2(FracBits)

Abs(x) == IF x < 0 THEN -x ELSE x

Sign(x) == IF x < 0 THEN -1 ELSE 1

Min(a, b) == IF a <= b THEN a ELSE b

Max(a, b) == IF a >= b THEN a ELSE b

\* the spacing of the floats around magnitude q (q >= 0): the least power
\* of two e with q < 2^MantBits * e
RECURSIVE UlpFrom(_, _)
UlpFrom(q, e) == IF q < Pow2(MantBits) * e THEN e ELSE UlpFrom(q, 2 * e)

Ulp(q) == UlpFrom(q, 1)

\* the nonnegative rational n/d rounded to the nearest multiple of e,
\* ties to the even multiple
RoundHalfEven(n, d, e) ==
    LET q == n \div (d * e)
        r2 == 2 * (n - q * d * e)
    IN  IF r2 < d * e THEN q * e
        ELSE IF r2 > d * e THEN (q + 1) * e
        ELSE IF q % 2 = 0 THEN q * e ELSE (q + 1) * e

\* the float nearest to the rational n/d (d > 0), n counted in units
FlDiv(n, d) ==
    LET a == Abs(n)
        e == Ulp(a \div d)
    IN  Sign(n) * RoundHalfEven(a, d, e)

\* the float nearest to the integer number of units x
Fl(x) == FlDiv(x, 1)

\* the float product of two floats
FlMul(a, b) == FlDiv(a * b, Scale)

\* C's fmod(x, y) for y > 0: the remainder with the sign of x, always exact
Fmod(x, y) == IF x >= 0 THEN x % y ELSE -((-x) % y)

\* Python's x % y on floats, y > 0: fmod, then a negative remainder is
\* moved up by y in floating point
PyMod(x, y) ==
    LET r == Fmod(x, y)
    IN  IF r # 0 /\ r < 0 THEN Fl(r + y) ELSE r

\* int(x): truncation toward zero of a float
IntOf(x) == IF x >= 0 THEN x \div Scale ELSE -((-x) \div Scale)

\* np.ceil(x)
CeilOf(x) == -((-x) \div Scale)

\* the outcome of a call: the exception it raised, or the value it returned
Raised(e) == [err |-> e, val |-> 0]

Returned(v) == [err |-> "none", val |-> v]

\* no call has been made, and a call that has not returned yet
NoCall == [fn |-> "none"]

Pending == [err |-> "pending", val |-> 0]

---------------------------------------------------------------------------
(* Wavetable generation *)

\* a float that is not a number, outside the range of every sample
NaN == 0 - 1000000

WAVEFORMS == {"sine", "triangle", "square", "sawtooth"}

\* one period of each waveform as the dewa blocks lay it out
WavePattern(waveform) ==
    CASE waveform = "sine"     -> <<0, 5, 7, 5, 0, -5, -7, -5>>
      [] waveform = "triangle" -> <<0, 4, 8, 4, 0, -4, -8, -4>>
      [] waveform = "square"   -> <<8, 8, 8, 8, -8, -8, -8, -8>>
      [] waveform = "sawtooth" -> <<-8, -6, -4, -2, 0, 2, 4, 6>>

\* block.samples of a Block(duration=length) holding one waveform
BlockSamples(length, waveform) ==
    [k \in 1..length |->
        WavePattern(waveform)[((k - 1) % Len(WavePattern(waveform))) + 1]]

\* samples[:length]
Take(samples, length) == SubSeq(samples, 1, Min(Max(length, 0), Len(samples)))

RECURSIVE MaxAbs(_)
MaxAbs(samples) ==
    IF samples = <<>> THEN 0
    ELSE Max(Abs(Head(samples)), MaxAbs(Tail(samples)))

\* wavetable / np.max(np.abs(wavetable)): numpy divides 0.0 by 0.0 to nan
\* with a warning, not an exception
Normalize(wavetable) ==
    LET peak == MaxAbs(wavetable)
    IN  [k \in 1..Len(wavetable) |->
            IF peak = 0 THEN NaN ELSE FlDiv(wavetable[k] * Scale, peak)]

\* lines 19-23 of dewa_generate_wavetable, given the block's samples
GenerateFrom(samples, length, waveform) ==
    IF waveform \notin WAVEFORMS THEN Raised("ValueError")
    ELSE IF Take(samples, length) = <<>> THEN Raised("ValueError")
    ELSE Returned(Normalize(Take(samples, length)))

dewa_generate_wavetable(length, waveform) ==
    IF waveform \notin WAVEFORMS THEN Raised("ValueError")
    ELSE GenerateFrom(BlockSamples(length, waveform), length, waveform)

\* main()'s wavetables
wavetables == [w \in WAVEFORMS |-> dewa_generate_wavetable(wavetable_size, w).val]

---------------------------------------------------------------------------
(* LinearInterpolator *)

\* values[i] of a numpy array: a negative i counts from the end, an i
\* outside [-len, len) raises IndexError
ArrayGet(values, i) ==
    IF 0 <= i /\ i < Len(values) THEN Returned(values[i + 1])
    ELSE IF -Len(values) <= i /\ i < 0 THEN Returned(values[Len(values) + i + 1])
    ELSE Raised("IndexError")

LinearInterpolator(values, index) ==
    LET low == IntOf(index)
        high == CeilOf(index)
        atLow == ArrayGet(values, low)
        atHigh == ArrayGet(values, high % Len(values))
    IN  IF low = high THEN atLow
        ELSE IF atHigh.err # "none" THEN atHigh
        ELSE IF atLow.err # "none" THEN atLow
        ELSE Returned(Fl(FlMul(index - low * Scale, atHigh.val)
                         + FlMul(high * Scale - index, atLow.val)))

---------------------------------------------------------------------------
(* WavetableOscillator *)

\* WavetableOscillator.__init__: no wavetable_increment attribute yet
NewOscillator(wavetable) ==
    [wavetable |-> wavetable,
     wavetable_index |-> 0,
     frequency |-> 0,
     has_increment |-> FALSE,
     wavetable_increment |-> 0]

\* table_length * frequency / sampling_rate, as the setter computes it
Increment(osc, value) == FlDiv(Fl(Len(osc.wavetable) * value), sampling_rate)

\* a setter that recomputes the increment only for a sounding frequency
SetFrequencyKeepsIncrement(osc, value) ==
    [osc EXCEPT !.frequency = value,
                !.has_increment = TRUE,
                !.wavetable_increment =
                    IF value > 0 \/ ~osc.has_increment
                    THEN FlDiv(Fl(Len(osc.wavetable) * value), sampling_rate)
                    ELSE @,
                !.wavetable_index = IF value <= 0 THEN 0 ELSE @]

\* a setter that resets the phase index at every assignment
SetFrequencyResetsPhase(osc, value) ==
    [osc EXCEPT !.frequency = value,
                !.has_increment = TRUE,
                !.wavetable_increment = Increment(osc, value),
                !.wavetable_index = 0]

\* the frequency setter
SetFrequency(osc, value) ==
    [osc EXCEPT !.frequency = value,
                !.has_increment = TRUE,
                !.wavetable_increment = Increment(osc, value),
                !.wavetable_index = IF value <= 0 THEN 0 ELSE @]

\* a phase step that advances by two increments
NextIndexTwice(osc) ==
    PyMod(Fl(osc.wavetable_index + 2 * osc.wavetable_increment),
          Len(osc.wavetable) * Scale)

\* the phase index get_sample leaves behind
NextIndex(osc) ==
    PyMod(Fl(osc.wavetable_index + osc.wavetable_increment),
          Len(osc.wavetable) * Scale)

\* get_sample: [err, val, osc]: the exception or the returned sample, and
\* the oscillator afterwards (unchanged when an exception is raised)
GetSample(osc) ==
    LET s == LinearInterpolator(osc.wavetable, osc.wavetable_index)
    IN  IF s.err # "none" THEN [err |-> s.err, val |-> 0, osc |-> osc]
        ELSE IF ~osc.has_increment
             THEN [err |-> "AttributeError", val |-> 0, osc |-> osc]
        ELSE [err |-> "none", val |-> s.val,
              osc |-> [osc EXCEPT !.wavetable_index = NextIndex(osc)]]

---------------------------------------------------------------------------
(* Voice *)

\* np.cos(np.pi * k / m) for 0 <= k <= m, by Bhaskara's rational
\* approximation (exact at 0, pi/3, pi/2, 2 pi/3 and pi, within 0.002
\* elsewhere, and decreasing in k like the cosine)
CosPi(k, m) ==
    IF 2 * k <= m
    THEN FlDiv((m * m - 4 * k * k) * Scale, m * m + k * k)
    ELSE -FlDiv((m * m - 4 * (m - k) * (m - k)) * Scale,
                m * m + (m - k) * (m - k))

\* (1 - np.cos(np.linspace(0, np.pi, num))) * 0.5
FadeEnvelope(num) ==
    [k \in 1..num |->
        IF num = 1 THEN FlMul(Fl(Scale - Scale), Scale \div 2)
        ELSE FlMul(Fl(Scale - CosPi(k - 1, num - 1)), Scale \div 2)]

\* the default of fade_in_out's fade_length
DefaultFadeLength == 1000

\* fade_in_out: signal[-fade_length:] *= envelope. A window of 0 samples
\* makes signal[-0:] the whole signal, which an empty envelope cannot be
\* broadcast to unless the signal is empty too.
fade_in_out(signal, fade_length) ==
    LET n == Min(fade_length, Len(signal) \div 2)
        envelope == FadeEnvelope(n)
    IN  IF n < 0 THEN Raised("ValueError")
        ELSE IF n = 0
        THEN (IF Len(signal) = 0 THEN Returned(signal) ELSE Raised("ValueError"))
        ELSE Returned([i \in 1..Len(signal) |->
                 IF i <= Len(signal) - n THEN signal[i]
                 ELSE FlMul(signal[i], envelope[i - (Len(signal) - n)])])

\* a gain applied with the opposite sign: 10 ** (-gain / 20)
AmplitudeInverted(gain) ==
    CASE gain = -20 -> 10 * Scale
      [] gain = -10 -> FlDiv(Scale * 3162, 1000)
      [] gain = 0 -> Scale

\* 10 ** (gain / 20) for the gains in use: the default -20, main()'s -10, 0
Amplitude(gain) ==
    CASE gain = -20 -> FlDiv(Scale, 10)
      [] gain = -10 -> FlDiv(Scale * 1000, 3162)
      [] gain = 0 -> Scale

\* the value of a singleton set: binding a result through {x} makes TLC
\* compute it once, however often it is used
The(S) == CHOOSE x \in S : TRUE

\* one output sample whose oscillators are read before they are set to the
\* frequency
RECURSIVE RenderSampleReadFirst(_, _, _, _)
RenderSampleReadFirst(oscs, j, frequency, acc) ==
    IF j > Len(oscs) THEN [err |-> "none", val |-> acc, oscs |-> oscs]
    ELSE The({IF r.err # "none"
              THEN [err |-> r.err, val |-> acc, oscs |-> oscs]
              ELSE RenderSampleReadFirst(
                       [oscs EXCEPT ![j] = SetFrequency(r.osc, frequency)],
                       j + 1, frequency, Fl(acc + r.val)) :
              r \in {GetSample(oscs[j])}})

\* one output sample: every oscillator of the bank, from the j-th on, is set
\* to the frequency and read once, the samples summed into acc
RECURSIVE RenderSample(_, _, _, _)
RenderSample(oscs, j, frequency, acc) ==
    IF j > Len(oscs) THEN [err |-> "none", val |-> acc, oscs |-> oscs]
    ELSE The({IF r.err # "none"
              THEN [err |-> r.err, val |-> acc,
                    oscs |-> [oscs EXCEPT ![j] = r.osc]]
              ELSE RenderSample([oscs EXCEPT ![j] = r.osc], j + 1, frequency,
                                Fl(acc + r.val)) :
              r \in {GetSample(SetFrequency(oscs[j], frequency))}})

\* one pass of the sample loop of synthesize; st is [err, val, oscs]: the
\* exception raised, the buffer filled so far and the bank
RenderOne(st, frequency) ==
    The({[err |-> r.err,
          val |-> IF r.err = "none" THEN Append(st.val, r.val) ELSE st.val,
          oscs |-> r.oscs] :
         r \in {RenderSample(st.oscs, 1, frequency, 0)}})

\* the sample loop of synthesize from sample i to sample n, in increasing
\* order (the first half of the range, then the second, which keeps the
\* evaluation shallow), stopping at the first exception
RECURSIVE Render(_, _, _, _)
Render(st, frequency, i, n) ==
    IF i > n \/ st.err # "none" THEN st
    ELSE IF i = n THEN RenderOne(st, frequency)
    ELSE The({Render(half, frequency, (i + n) \div 2 + 1, n) :
              half \in {Render(st, frequency, i, (i + n) \div 2)}})

\* int(duration_seconds * self.sampling_rate)
BufferLength(duration_seconds) == IntOf(Fl(duration_seconds * sampling_rate))

\* lines 72-75 of synthesize: the gain and the fade over the rendered buffer
Finish(r, gain) ==
    IF r.err # "none" THEN [err |-> r.err, val |-> <<>>, oscs |-> r.oscs]
    ELSE The({[err |-> faded.err, val |-> faded.val, oscs |-> r.oscs] :
              faded \in {fade_in_out([i \in 1..Len(r.val) |->
                                         FlMul(r.val[i], Amplitude(gain))],
                                     DefaultFadeLength)}})

\* Voice.synthesize for a scalar frequency: [err, val, oscs], the exception
\* raised or the buffer returned, and the oscillator bank afterwards
synthesize(oscs, gain, frequency, duration_seconds) ==
    IF BufferLength(duration_seconds) < 0
    THEN [err |-> "ValueError", val |-> <<>>, oscs |-> oscs]
    ELSE The({Finish(r, gain) :
              r \in {Render([err |-> "none", val |-> <<>>, oscs |-> oscs],
                            frequency, 1, BufferLength(duration_seconds))}})

---------------------------------------------------------------------------
(* Keyboard mappings and utilities *)

\* 2 ** (k / 12) in 1024ths, k = 0..11
SemitoneRatio == <<1024, 1085, 1149, 1218, 1290, 1367, 1448, 1534, 1625, 1722, 1825, 1933>>

\* 440.0 * 2 ** ((midi_note - 69) / 12)
midi_to_freq(midi_note) ==
    LET d == midi_note - 69
        octaves == d \div 12
        base == FlDiv(440 * Scale * SemitoneRatio[(d % 12) + 1], 1024)
    IN  IF octaves >= 0 THEN Fl(base * Pow2(octaves))
        ELSE FlDiv(base, Pow2(-octaves))

\* main() is not running
NoApp ==
    /\ current_octave = 0
    /\ current_waveform = "sine"
    /\ held_notes = <<>>
    /\ sounds = <<>>
    /\ note_number = 0
    /\ running = "exited"

---------------------------------------------------------------------------
(* The oscillator driven by arbitrary frequency assignments and reads *)

\* frequencies assigned: negative, tiny negative, zero, and positive ones
\* whose increments are and are not sums the floats hold exactly
FreqInputs ==
    {-(3 * Scale), -1, 0, (3 * Scale) \div 5 + 1, Scale, 3 * Scale}

InitOsc ==
    /\ oscillators = <<NewOscillator(wavetables["sine"])>>
    /\ sample = 0
    /\ err = "none"
    /\ op = [name |-> "init", value |-> 0]
    /\ n_calls = -1
    /\ call = NoCall
    /\ result = Pending
    /\ NoApp

\* oscillator.frequency = value
OscSetFrequency ==
    \E value \in FreqInputs :
        LET osc == oscillators[1]
            new == SetFrequency(osc, value)
        IN  /\ oscillators' = [oscillators EXCEPT ![1] = new]
            /\ err' = "none"
            /\ op' = [name |-> "set", value |-> value]
            /\ n_calls' = IF value > 0 /\ new.wavetable_index = 0 THEN 0
                          ELSE IF value > 0 /\ value = osc.frequency THEN n_calls
                          ELSE -1
            /\ UNCHANGED <<sample, call, result, appVars>>

\* oscillator.get_sample()
OscGetSample ==
    LET r == GetSample(oscillators[1])
    IN  /\ oscillators' = [oscillators EXCEPT ![1] = r.osc]
        /\ err' = r.err
        /\ sample' = IF r.err = "none" THEN r.val ELSE sample
        /\ op' = [name |-> "get", value |-> 0]
        /\ n_calls' = IF r.err = "none" /\ n_calls >= 0 /\ n_calls < MaxCalls
                      THEN n_calls + 1 ELSE -1
        /\ UNCHANGED <<call, result, appVars>>

NextOsc == OscSetFrequency \/ OscGetSample

SpecOsc == InitOsc /\ [][NextOsc]_vars

---------------------------------------------------------------------------
(* A voice over the oscillator: frequency assignments and synthesize calls *)

\* the durations, in seconds, of the buffers a voice renders from the
\* oscillator
RenderSeconds == {1, 2}

\* Voice.synthesize(frequency, duration_seconds) of a voice of the default
\* gain, -20, whose bank is the oscillator, at a positive frequency;
\* op.value is the pair of arguments
OscSynthesize ==
    \E frequency \in {v \in FreqInputs : v > 0}, seconds \in RenderSeconds :
        \E out \in {synthesize(oscillators, -20, frequency,
                                seconds * Scale)} :
            /\ oscillators' = out.oscs
            /\ err' = out.err
            /\ op' = [name |-> "synthesize",
                      value |-> <<frequency, seconds * Scale>>]
            /\ n_calls' = -1
            /\ UNCHANGED <<sample, call, result, appVars>>

NextVoice == OscSetFrequency \/ OscSynthesize

SpecVoice == InitOsc /\ [][NextVoice]_vars

---------------------------------------------------------------------------
(* The functions called once each on inputs drawn from bounded sets *)

SeqsUpTo(S, n) == UNION {[1..k -> S] : k \in 0..n}

InterpolatorCalls ==
    {[fn |-> "interpolate", values |-> v, index |-> (k * Scale) \div 2] :
        v \in SeqsUpTo({-Scale, Scale \div 2, Scale}, MaxLen) \ {<<>>},
        k \in (-2 * MaxLen)..(2 * MaxLen + 2)}

\* a block of `length` samples, as Block(duration=length) holds
GenerateCalls ==
    {[fn |-> "generate", samples |-> b, length |-> Len(b), waveform |-> w] :
        b \in SeqsUpTo({-2, 0, 1}, MaxLen), w \in {"sine", "square", "noise"}}

FadeCalls ==
    {[fn |-> "fade_in_out", signal |-> b, fade_length |-> n] :
        b \in SeqsUpTo({Scale, -(Scale \div 2)}, 2 * MaxLen - 1),
        n \in (0..MaxLen) \cup {DefaultFadeLength}}

\* durations: negative, zero, below one sample, of about one and two
\* samples, of 1.375 seconds, and of 2, 3 and 4 seconds
Durations ==
    {-Scale, -2, 0, 2, Scale \div sampling_rate, (2 * Scale) \div sampling_rate,
     (11 * Scale) \div 8, 2 * Scale, 3 * Scale, 4 * Scale}

SynthesizeCalls ==
    {[fn |-> "synthesize", waveform |-> w, gain |-> -10, frequency |-> f,
      duration_seconds |-> d] :
        w \in WAVEFORMS, f \in {(3 * Scale) \div 5 + 1, Scale, midi_to_freq(48)},
        d \in Durations}

InitFn ==
    /\ call \in InterpolatorCalls \cup GenerateCalls \cup FadeCalls
                    \cup SynthesizeCalls
    /\ result = Pending
    /\ oscillators = IF call.fn = "synthesize"
                     THEN <<NewOscillator(wavetables[call.waveform])>>
                     ELSE <<>>
    /\ sample = 0
    /\ err = "none"
    /\ op = [name |-> "init", value |-> 0]
    /\ n_calls = -1
    /\ NoApp

CallInterpolator ==
    /\ call.fn = "interpolate" /\ result = Pending
    /\ result' = LinearInterpolator(call.values, call.index)
    /\ UNCHANGED <<oscillators, sample, err, op, n_calls, call, appVars>>

CallGenerate ==
    /\ call.fn = "generate" /\ result = Pending
    /\ result' = GenerateFrom(call.samples, call.length, call.waveform)
    /\ UNCHANGED <<oscillators, sample, err, op, n_calls, call, appVars>>

CallFadeInOut ==
    /\ call.fn = "fade_in_out" /\ result = Pending
    /\ result' = fade_in_out(call.signal, call.fade_length)
    /\ UNCHANGED <<oscillators, sample, err, op, n_calls, call, appVars>>

CallSynthesize ==
    /\ call.fn = "synthesize" /\ result = Pending
    /\ LET r == synthesize(oscillators, call.gain, call.frequency,
                           call.duration_seconds)
       IN  /\ result' = [err |-> r.err, val |-> r.val]
           /\ oscillators' = r.oscs
    /\ UNCHANGED <<sample, err, op, n_calls, call, appVars>>

NextFn == CallInterpolator \/ CallGenerate \/ CallFadeInOut \/ CallSynthesize

SpecFn == InitFn /\ [][NextFn]_vars

---------------------------------------------------------------------------
(* main(): the key mappings and the event loop *)

KEY_TO_NOTE ==
    [a |-> 0, s |-> 2, d |-> 4, f |-> 5, g |-> 7, h |-> 9, j |-> 11, k |-> 12]

BLACK_KEY_TO_NOTE == [w |-> 1, e |-> 3, t |-> 6, y |-> 8, u |-> 10]

OCTAVE_KEYS == [z |-> -1, x |-> 1]

WAVEFORM_KEYS ==
    ("1" :> "sine") @@ ("2" :> "triangle") @@ ("3" :> "square")
        @@ ("4" :> "sawtooth")

\* the keys of the events: the mapped ones, escape, and one unmapped key
Keys ==
    DOMAIN KEY_TO_NOTE \cup DOMAIN BLACK_KEY_TO_NOTE \cup DOMAIN OCTAVE_KEYS
        \cup DOMAIN WAVEFORM_KEYS \cup {"escape", "q"}

\* the keys of the events of the event loop's runs: a white key, a black
\* key, both octave keys, two waveform keys, escape and the unmapped key
LoopKeys == {"a", "w", "z", "x", "1", "3", "escape", "q"}

base_octave == 3

\* an octave shift that lets the octave down to 0
ShiftOctaveToZero(octave, step) == Max(0, Min(7, octave + step))

\* max(1, min(7, current_octave + step))
ShiftOctave(octave, step) == Max(1, Min(7, octave + step))

\* a note number counted from the octave above
NoteNumberOctaveUp(octave, offset) == 12 * (octave + 1) + offset

\* 12 * current_octave + KEY_TO_NOTE[event.key]
NoteNumber(octave, offset) == 12 * octave + offset

\* duration_seconds of main()'s synthesize calls
NoteSeconds == 5

\* main()'s gain
NoteGain == -10

InitApp ==
    /\ current_octave = base_octave
    /\ current_waveform = "sine"
    /\ oscillators = <<NewOscillator(wavetables["sine"])>>
    /\ held_notes = <<>>
    /\ sounds = <<>>
    /\ note_number = 0
    /\ running = "yes"
    /\ sample = 0
    /\ err = "none"
    /\ op = [name |-> "init", value |-> 0]
    /\ n_calls = -1
    /\ call = NoCall
    /\ result = Pending

\* an event can be handled: the loop has not been left, and the model's
\* budget of Sound objects is not used up
Polling == running # "exited" /\ err = "none"

\* KEYDOWN of an octave key
OctaveKeyDown(key) ==
    /\ Polling /\ key \in DOMAIN OCTAVE_KEYS
    /\ current_octave' = ShiftOctave(current_octave, OCTAVE_KEYS[key])
    /\ op' = [name |-> "octave", value |-> current_octave + OCTAVE_KEYS[key]]
    /\ result' = Pending
    /\ UNCHANGED <<oscillators, sample, err, n_calls, call,
                   current_waveform, held_notes, sounds, note_number, running>>

\* a waveform switch whose new oscillator takes over the old one's phase
WaveformKeyDownKeepsPhase(key) ==
    /\ Polling /\ key \in DOMAIN WAVEFORM_KEYS
    /\ current_waveform' = WAVEFORM_KEYS[key]
    /\ oscillators' = <<[NewOscillator(wavetables[WAVEFORM_KEYS[key]])
                            EXCEPT !.wavetable_index =
                                oscillators[1].wavetable_index]>>
    /\ op' = [name |-> "waveform", value |-> key]
    /\ result' = Pending
    /\ UNCHANGED <<sample, err, n_calls, call, current_octave,
                   held_notes, sounds, note_number, running>>

\* KEYDOWN of a waveform key
WaveformKeyDown(key) ==
    /\ Polling /\ key \in DOMAIN WAVEFORM_KEYS
    /\ current_waveform' = WAVEFORM_KEYS[key]
    /\ oscillators' = <<NewOscillator(wavetables[WAVEFORM_KEYS[key]])>>
    /\ op' = [name |-> "waveform", value |-> key]
    /\ result' = Pending
    /\ UNCHANGED <<sample, err, n_calls, call, current_octave,
                   held_notes, sounds, note_number, running>>

\* KEYDOWN of escape, and QUIT
StopRunning ==
    /\ Polling
    /\ running' = "no"
    /\ op' = [name |-> "stop", value |-> 0]
    /\ result' = Pending
    /\ UNCHANGED <<oscillators, sample, err, n_calls, call,
                   current_octave, current_waveform, held_notes, sounds,
                   note_number>>

\* the note branches of KEYDOWN: synthesize, make_sound_obj, play, and the
\* entry in held_notes; an exception of synthesize ends main(). result is
\* note_audio, the buffer this event hands to make_sound_obj; the other
\* events hand over none.
PlayNote(key, offset) ==
    \E out \in {synthesize(oscillators, NoteGain,
                            midi_to_freq(NoteNumber(current_octave, offset)),
                            NoteSeconds * Scale)} :
        /\ note_number' = NoteNumber(current_octave, offset)
        /\ oscillators' = out.oscs
        /\ err' = out.err
        /\ result' = [err |-> out.err, val |-> out.val]
        /\ IF out.err = "none"
           THEN /\ sounds' = Append(sounds,
                               [key |-> key, plays |-> 1, fadeouts |-> 0])
                /\ held_notes' = (key :> (Len(sounds) + 1)) @@ held_notes
           ELSE UNCHANGED <<sounds, held_notes>>

\* a note branch taken also for a key that is held
NoteKeyDownWhileHeld(key) ==
    /\ Polling /\ Len(sounds) < MaxSounds
    /\ key \notin DOMAIN OCTAVE_KEYS \cup DOMAIN WAVEFORM_KEYS \cup {"escape"}
    /\ \/ key \in DOMAIN KEY_TO_NOTE /\ PlayNote(key, KEY_TO_NOTE[key])
       \/ /\ key \notin DOMAIN KEY_TO_NOTE /\ key \in DOMAIN BLACK_KEY_TO_NOTE
          /\ PlayNote(key, BLACK_KEY_TO_NOTE[key])
    /\ op' = [name |-> "note_on", value |-> 0]
    /\ UNCHANGED <<sample, n_calls, call, current_octave, current_waveform,
                   running>>

NoteKeyDown(key) ==
    /\ Polling /\ Len(sounds) < MaxSounds
    /\ key \notin DOMAIN OCTAVE_KEYS \cup DOMAIN WAVEFORM_KEYS \cup {"escape"}
    /\ key \notin DOMAIN held_notes
    /\ \/ key \in DOMAIN KEY_TO_NOTE /\ PlayNote(key, KEY_TO_NOTE[key])
       \/ /\ key \notin DOMAIN KEY_TO_NOTE /\ key \in DOMAIN BLACK_KEY_TO_NOTE
          /\ PlayNote(key, BLACK_KEY_TO_NOTE[key])
    /\ op' = [name |-> "note_on", value |-> 0]
    /\ UNCHANGED <<sample, n_calls, call, current_octave, current_waveform,
                   running>>

\* KEYDOWN of a key that no branch takes: a note key already held, or an
\* unmapped key
IgnoredKeyDown(key) ==
    /\ Polling
    /\ key \notin DOMAIN OCTAVE_KEYS \cup DOMAIN WAVEFORM_KEYS \cup {"escape"}
    /\ \/ key \in DOMAIN held_notes
       \/ key \notin DOMAIN KEY_TO_NOTE \cup DOMAIN BLACK_KEY_TO_NOTE
    /\ op' = [name |-> "ignored_down", value |-> key]
    /\ result' = Pending
    /\ UNCHANGED <<oscillators, sample, err, n_calls, call, appVars>>

\* a key-up that fades the Sound out and leaves the key in held_notes
NoteKeyUpKeepsHeld(key) ==
    /\ Polling /\ key \in DOMAIN held_notes
    /\ sounds' = [sounds EXCEPT ![held_notes[key]].fadeouts = @ + 1]
    /\ op' = [name |-> "note_off", value |-> held_notes[key]]
    /\ result' = Pending
    /\ UNCHANGED <<oscillators, sample, err, n_calls, call,
                   current_octave, current_waveform, note_number, running,
                   held_notes>>

\* KEYUP of a held key: fadeout(150) on its Sound, del held_notes[key]
NoteKeyUp(key) ==
    /\ Polling /\ key \in DOMAIN held_notes
    /\ sounds' = [sounds EXCEPT ![held_notes[key]].fadeouts = @ + 1]
    /\ held_notes' = [k2 \in DOMAIN held_notes \ {key} |-> held_notes[k2]]
    /\ op' = [name |-> "note_off", value |-> held_notes[key]]
    /\ result' = Pending
    /\ UNCHANGED <<oscillators, sample, err, n_calls, call,
                   current_octave, current_waveform, note_number, running>>

\* KEYUP of a key that is not held, and events of other types
IgnoredEvent(key) ==
    /\ Polling /\ key \notin DOMAIN held_notes
    /\ op' = [name |-> "ignored_up", value |-> 0]
    /\ result' = Pending
    /\ UNCHANGED <<oscillators, sample, err, n_calls, call, appVars>>

\* the batch of events is done with running False: pygame.quit()
LeaveLoop ==
    /\ running = "no" /\ err = "none"
    /\ running' = "exited"
    /\ op' = [name |-> "quit", value |-> 0]
    /\ result' = Pending
    /\ UNCHANGED <<oscillators, sample, err, n_calls, call,
                   current_octave, current_waveform, held_notes, sounds,
                   note_number>>

NextApp ==
    \/ \E key \in LoopKeys :
          \/ OctaveKeyDown(key)
          \/ WaveformKeyDown(key)
          \/ NoteKeyDown(key)
          \/ IgnoredKeyDown(key)
          \/ NoteKeyUp(key)
          \/ IgnoredEvent(key)
    \/ StopRunning
    \/ LeaveLoop

SpecApp == InitApp /\ [][NextApp]_vars

---------------------------------------------------------------------------
(* One key-down event of any key, from any octave and waveform the loop *)
(* reaches with no key held                                            *)

InitKeys ==
    /\ current_octave \in 1..7
    /\ current_waveform \in WAVEFORMS
    /\ oscillators = <<NewOscillator(wavetables[current_waveform])>>
    /\ held_notes = <<>>
    /\ sounds = <<>>
    /\ note_number = 0
    /\ running = "yes"
    /\ sample = 0
    /\ err = "none"
    /\ op = [name |-> "init", value |-> 0]
    /\ n_calls = -1
    /\ call = NoCall
    /\ result = Pending

\* no event has been handled yet
FirstEvent == op.name = "init"

NextKeys ==
    \/ \E key \in Keys :
          \/ FirstEvent /\ OctaveKeyDown(key)
          \/ FirstEvent /\ WaveformKeyDown(key)
          \/ FirstEvent /\ NoteKeyDown(key)
          \/ FirstEvent /\ IgnoredKeyDown(key)
    \/ FirstEvent /\ StopRunning

SpecKeys == InitKeys /\ [][NextKeys]_vars

---------------------------------------------------------------------------
(* Properties of the oscillator *)

\* the table length counted in units
TableSpan(osc) == Len(osc.wavetable) * Scale

\* the distance between two phases on the circle of circumference m
CircDist(a, b, m) == Min((a - b) % m, (b - a) % m)

\* twice the largest rounding error of one float result of magnitude below q
StepErr2(q) == IF q < Pow2(MantBits) THEN 0 ELSE Ulp(q)

\* C2: in every reachable state every oscillator's phase index lies in
\* [0, table_length), so the interpolator's lookup never raises IndexError.
C2_PhaseIndexInRange ==
    /\ \A i \in DOMAIN oscillators :
          /\ 0 <= oscillators[i].wavetable_index
          /\ oscillators[i].wavetable_index < TableSpan(oscillators[i])
    /\ err # "IndexError"

\* C3 (state part): once a frequency was assigned, the increment is
\* table_length * frequency / sampling_rate of the stored frequency.
C3_IncrementMatches ==
    \A i \in DOMAIN oscillators :
        oscillators[i].has_increment =>
            oscillators[i].wavetable_increment
                = FlDiv(Fl(Len(oscillators[i].wavetable) * oscillators[i].frequency),
                        sampling_rate)

\* C3 (step part): an assignment of f stores f, sets the increment in the
\* same step and resets the phase index to 0 when f <= 0.
C3_AssignmentStep ==
    (op'.name = "set") =>
        /\ oscillators'[1].frequency = op'.value
        /\ oscillators'[1].has_increment
        /\ oscillators'[1].wavetable_increment
              = FlDiv(Fl(Len(oscillators[1].wavetable) * op'.value), sampling_rate)
        /\ (op'.value <= 0 => oscillators'[1].wavetable_index = 0)

\* C3: every frequency assignment stores f, recomputes the increment as
\* table_length * f / sampling_rate in the same step and resets the phase
\* to 0 when f <= 0; the increment always matches the stored frequency.
C3_FrequencyAssignment == []C3_IncrementMatches /\ [][C3_AssignmentStep]_vars

\* C3 witness: a non-positive frequency was assigned to an oscillator, which
\* is silent with a negative increment and a phase index of 0.
C3_Witness ==
    /\ op.name = "set" /\ op.value < 0
    /\ oscillators[1].frequency = op.value
    /\ oscillators[1].wavetable_increment < 0
    /\ oscillators[1].wavetable_index = 0

\* C4 as stated: after N calls from phase 0 at a constant positive
\* frequency the phase index equals (N * increment) mod table_length exactly.
C4_ExactPhase ==
    n_calls >= 0 =>
        oscillators[1].wavetable_index
            = (n_calls * oscillators[1].wavetable_increment) % TableSpan(oscillators[1])

\* C4 (state part): the phase index is within N rounding errors of
\* (N * increment) mod table_length, measured around the table.
C4_PhaseWithinRounding ==
    n_calls >= 0 =>
        /\ oscillators[1].frequency > 0
        /\ 2 * CircDist(oscillators[1].wavetable_index,
                        (n_calls * oscillators[1].wavetable_increment)
                            % TableSpan(oscillators[1]),
                        TableSpan(oscillators[1]))
              <= n_calls * StepErr2(TableSpan(oscillators[1])
                                    + oscillators[1].wavetable_increment)

\* C4 (step part): get_sample returns the sample at the phase index it
\* found and then advances it by one increment modulo the table length.
C4_ReadThenAdvance ==
    (op'.name = "get" /\ err' = "none") =>
        /\ sample' = LinearInterpolator(oscillators[1].wavetable,
                                        oscillators[1].wavetable_index).val
        /\ oscillators'[1].wavetable_index
              = PyMod(Fl(oscillators[1].wavetable_index
                         + oscillators[1].wavetable_increment),
                      TableSpan(oscillators[1]))

\* C4 (amended): from phase 0 at a constant positive frequency, after N
\* get_sample calls the phase index equals (N * increment) mod table_length
\* up to the accumulated rounding of the N float additions; each call reads
\* at the current index first and then advances by one increment modulo the
\* table length.
C4_PhaseAccumulation == []C4_PhaseWithinRounding /\ [][C4_ReadThenAdvance]_vars

\* C4 witness: a tracked run of MaxCalls calls whose float phase has drifted
\* from the exact product.
C4_Witness ==
    /\ n_calls = MaxCalls
    /\ oscillators[1].wavetable_index
          # (n_calls * oscillators[1].wavetable_increment) % TableSpan(oscillators[1])

\* the oscillator after n get_sample calls, the first exception ending them
RECURSIVE AfterReads(_, _)
AfterReads(osc, n) ==
    IF n <= 0 THEN osc
    ELSE The({IF r.err # "none" THEN r.osc ELSE AfterReads(r.osc, n - 1) :
              r \in {GetSample(osc)}})

\* C16 (assignment): assigning a positive frequency changes the stored
\* frequency and the increment only; the phase index and the table stay.
C16_PositiveAssignmentStep ==
    (op'.name = "set" /\ op'.value > 0) =>
        /\ oscillators'[1].wavetable_index = oscillators[1].wavetable_index
        /\ oscillators'[1].wavetable = oscillators[1].wavetable
        /\ oscillators'[1].frequency = op'.value
        /\ oscillators'[1].wavetable_increment
              = FlDiv(Fl(Len(oscillators[1].wavetable) * op'.value), sampling_rate)

\* C16 (rendering): synthesize at a constant positive frequency f leaves the
\* oscillator as one assignment of f followed by one get_sample call per
\* sample of the buffer leaves it.
C16_RenderStep ==
    (op'.name = "synthesize") =>
        oscillators'[1]
            = AfterReads(SetFrequency(oscillators[1], op'.value[1]),
                         BufferLength(op'.value[2]))

\* C16: assigning a positive frequency leaves the phase index unchanged, so
\* rendering N samples at a constant positive frequency advances the phase
\* exactly as N get_sample calls after a single assignment do.
C16_AssignmentKeepsPhase ==
    [][C16_PositiveAssignmentStep]_vars /\ [][C16_RenderStep]_vars

\* C16 witness: a buffer was rendered at the frequency whose increment is
\* half the table, from an oscillator that was not at phase index 0: the
\* whole number of turns leaves it where it was.
C16_Witness ==
    /\ op.name = "synthesize" /\ op.value[1] = Scale /\ err = "none"
    /\ oscillators[1].wavetable_index # 0
    /\ oscillators[1].frequency = Scale

---------------------------------------------------------------------------
(* Properties of the functions *)

\* the call has returned or raised
Done == result.err # "pending"

\* the samples of the fade window of a buffer of n samples
FadeWindow(n, fade_length) == (n - Min(fade_length, n \div 2) + 1)..n

\* the buffer ends in samples none of which exceeds the one before it, the
\* last one being the least of the window
DecaysOver(buffer, window) ==
    /\ \A i \in window : i + 1 \in window => buffer[i] >= buffer[i + 1]
    /\ \A i \in window : buffer[Len(buffer)] <= buffer[i]

\* every sample of the signal is the same positive value
ConstantSignal(signal) ==
    \A i \in DOMAIN signal : signal[i] = signal[1] /\ signal[1] > 0

\* C6: the envelope laid over the final min(fade_length, length / 2) samples
\* is a fade-out: a constant-magnitude tail comes out non-increasing over
\* the window, with the buffer's last sample the smallest (fade_in_out on a
\* constant signal; synthesize on the constant square table).
C6_FadeOutEnvelope ==
    /\ (call.fn = "fade_in_out" /\ Done /\ result.err = "none"
            /\ ConstantSignal(call.signal))
          => DecaysOver(result.val, FadeWindow(Len(call.signal), call.fade_length))
    /\ (call.fn = "synthesize" /\ Done /\ result.err = "none"
            /\ ConstantSignal(wavetables[call.waveform]))
          => DecaysOver(result.val, FadeWindow(Len(result.val), DefaultFadeLength))

\* C7: synthesize with a non-positive duration fails with an error at the
\* call and returns no buffer.
C7_InvalidDuration ==
    (call.fn = "synthesize" /\ Done /\ call.duration_seconds <= 0)
        => result.err # "none"

\* C8: for an integral index k (also k >= table length) the interpolator
\* returns table[k mod len]; for a non-integral index with low = floor(index)
\* and high = ceil(index) it returns
\* (index - low) * table[high mod len] + (high - index) * table[low].
C8_InterpolatorContract ==
    (call.fn = "interpolate" /\ Done /\ call.index >= 0) =>
        LET n == Len(call.values)
            low == call.index \div Scale
            high == -((-call.index) \div Scale)
        IN  IF call.index % Scale = 0
            THEN result = Returned(call.values[(low % n) + 1])
            ELSE (0 <= low /\ low < n) =>
                    result = Returned(
                        Fl(FlMul(call.index - low * Scale,
                                 call.values[(high % n) + 1])
                           + FlMul(high * Scale - call.index,
                                   call.values[low + 1])))

\* round(x): the integer nearest to a nonnegative float, ties to even
RoundOf(x) == RoundHalfEven(x, Scale, 1)

\* C12: for a positive duration the buffer synthesize returns has exactly
\* round(duration_seconds * sampling_rate) samples, the nearest integer and
\* not the truncated integer part.
C12_RoundedLength ==
    (call.fn = "synthesize" /\ Done /\ result.err = "none"
        /\ call.duration_seconds > 0) =>
            Len(result.val) = RoundOf(Fl(call.duration_seconds * sampling_rate))

\* C10: generating a table from an all-zero signal either fails at the call
\* or returns a silent table; it never returns not-a-number samples.
C10_NoUndefinedTable ==
    (call.fn = "generate" /\ Done /\ call.waveform \in WAVEFORMS
        /\ MaxAbs(call.samples) = 0) =>
            \/ result.err # "none"
            \/ \A i \in DOMAIN result.val : result.val[i] = 0

---------------------------------------------------------------------------
(* Properties of the event loop *)

\* C1 (state part): the octave is an integer from 1 to 7.
C1_OctaveInRange == current_octave \in 1..7

\* C1 (step part): an octave key moves the octave one step, or leaves it at
\* the bound it is at; no other event changes it.
C1_OctaveStep ==
    IF op'.name = "octave"
    THEN /\ op'.value \in {current_octave - 1, current_octave + 1}
         /\ current_octave' = (IF op'.value > 7 THEN 7
                               ELSE IF op'.value < 1 THEN 1 ELSE op'.value)
    ELSE current_octave' = current_octave

\* C1: after any sequence of key-down events from octave 3 the octave is an
\* integer in [1,7]; an octave key at a bound leaves it at that bound.
C1_OctaveClamped == []C1_OctaveInRange /\ [][C1_OctaveStep]_vars

\* C1 witness: octave-up was pressed at octave 7 and the octave is still 7.
C1_Witness == op.name = "octave" /\ op.value = 8 /\ current_octave = 7

\* the latest Sound made for a key
LatestSound(key) ==
    CHOOSE h \in DOMAIN sounds :
        /\ sounds[h].key = key
        /\ \A g \in DOMAIN sounds : sounds[g].key = key => g <= h

\* C5 (state part): every Sound was played once and faded out at most once;
\* a held key maps to a Sound made for that key and not faded out.
C5_FadeOutOnce ==
    /\ \A h \in DOMAIN sounds :
          sounds[h].plays = 1 /\ sounds[h].fadeouts \in {0, 1}
    /\ \A key \in DOMAIN held_notes :
          /\ held_notes[key] \in DOMAIN sounds
          /\ sounds[held_notes[key]].key = key
          /\ sounds[held_notes[key]].fadeouts = 0

\* C5 (step part): a fade-out is requested only by the key-up of a held
\* key, on the Sound of that key's latest note-on, which had been played.
C5_FadeOutStep ==
    \A h \in DOMAIN sounds :
        sounds'[h].fadeouts # sounds[h].fadeouts =>
            /\ op'.name = "note_off" /\ op'.value = h
            /\ sounds[h].plays = 1 /\ sounds[h].fadeouts = 0
            /\ sounds[h].key \in DOMAIN held_notes
            /\ sounds[h].key \notin DOMAIN held_notes'
            /\ h = LatestSound(sounds[h].key)
            /\ \A g \in DOMAIN sounds \ {h} : sounds'[g] = sounds[g]

\* C5: a fade-out is requested only on a Sound that was synthesized and
\* played for the same key, at most once per Sound: the key-up of a held key
\* fades out the Sound of that key's latest note-on, and the key-up of a key
\* that is not held fades out nothing.
C5_FadeOutOnRelease == []C5_FadeOutOnce /\ [][C5_FadeOutStep]_vars

\* C5 witness: a key pressed, released and pressed again was released after
\* the octave was changed, and its second Sound is the one faded out.
C5_Witness ==
    /\ op.name = "note_off" /\ op.value = 2
    /\ Len(sounds) = 2 /\ sounds[1].key = sounds[2].key
    /\ sounds[1].fadeouts = 1 /\ sounds[2].fadeouts = 1
    /\ note_number # 12 * current_octave
    /\ sounds[2].key = "a"

\* the semitone offsets the claim gives the white and the black keys
C9_Offsets ==
    [a |-> 0, s |-> 2, d |-> 4, f |-> 5, g |-> 7, h |-> 9, j |-> 11, k |-> 12,
     w |-> 1, e |-> 3, t |-> 6, y |-> 8, u |-> 10]

\* C9: the note synthesized for a note key pressed while not held is
\* 12 * (the octave at the press) + the key's semitone offset, and the
\* oscillator is driven at that note's frequency.
C9_NoteNumber ==
    op.name = "note_on" =>
        /\ sounds[Len(sounds)].key \in DOMAIN C9_Offsets
        /\ note_number = 12 * current_octave + C9_Offsets[sounds[Len(sounds)].key]
        /\ oscillators[1].frequency = midi_to_freq(note_number)

\* C9 witness: the black key of offset 1 pressed at octave 4 played note 49.
C9_Witness ==
    /\ op.name = "note_on" /\ current_octave = 4
    /\ sounds[Len(sounds)].key = "w" /\ note_number = 49

\* C11: every sample of note_audio, the buffer a note-on hands to
\* make_sound_obj, lies in [-1, 1], so that scaled by 32767 it fits a signed
\* 16-bit integer.
C11_BufferInRange ==
    result.err = "none" =>
        \A i \in DOMAIN result.val :
            /\ -Scale <= result.val[i] /\ result.val[i] <= Scale
            /\ -32768 * Scale <= 32767 * result.val[i]
            /\ 32767 * result.val[i] <= 32767 * Scale

\* C11 witness: a note played on the square table was handed over, its
\* samples before the fade at the full amplitude of the -10 dB gain.
C11_Witness ==
    /\ op.name = "note_on" /\ current_waveform = "square"
    /\ result.err = "none" /\ Len(result.val) = NoteSeconds * sampling_rate
    /\ result.val[1] = Amplitude(NoteGain)
    /\ \E i \in DOMAIN result.val : result.val[i] < result.val[1]

\* C13 (step part): at entry to the synthesize call of a note-on every
\* oscillator of the bank has phase index 0.
C13_EntryPhaseZero ==
    (op'.name = "note_on") =>
        \A i \in DOMAIN oscillators : oscillators[i].wavetable_index = 0

\* C13: for every note-on of the event loop the oscillator's phase index at
\* entry to that note's synthesize call is 0: the phase one note leaves
\* behind does not carry over into the next note's buffer, whether or not
\* the waveform was switched in between.
C13_PhaseRestartsAtNoteOn == [][C13_EntryPhaseZero]_vars

\* C14 (step part): the event replaces the bank by one fresh oscillator over
\* the table generated for the key's waveform, at phase index 0, and leaves
\* the held keys, the sounds, the octave and the last note alone.
C14_WaveformStep ==
    (op'.name = "waveform") =>
        /\ op'.value \in DOMAIN WAVEFORM_KEYS
        /\ current_waveform' = WAVEFORM_KEYS[op'.value]
        /\ Len(oscillators') = 1
        /\ oscillators'[1].wavetable
              = dewa_generate_wavetable(wavetable_size, current_waveform').val
        /\ oscillators'[1].wavetable_index = 0
        /\ oscillators'[1].frequency = 0
        /\ ~oscillators'[1].has_increment
        /\ held_notes' = held_notes
        /\ sounds' = sounds
        /\ current_octave' = current_octave
        /\ note_number' = note_number
        /\ running' = running

\* C14: a waveform-select key-down replaces the oscillator bank with exactly
\* one fresh oscillator over the selected waveform's table with phase index
\* 0, and changes neither the held keys and their sounds nor the octave.
C14_WaveformSwitch == [][C14_WaveformStep]_vars

\* C14 witness: the square waveform was selected while a key was held at a
\* changed octave; the key is still held, its sound is not faded out, and
\* the bank is one oscillator over the square table at phase index 0.
C14_Witness ==
    /\ op.name = "waveform" /\ op.value = "3"
    /\ current_waveform = "square"
    /\ "a" \in DOMAIN held_notes /\ sounds[held_notes["a"]].fadeouts = 0
    /\ current_octave = 4
    /\ Len(oscillators) = 1
    /\ oscillators[1].wavetable = wavetables["square"]
    /\ oscillators[1].wavetable_index = 0

\* the keys that play notes
NoteKeys == DOMAIN KEY_TO_NOTE \cup DOMAIN BLACK_KEY_TO_NOTE

\* the Sounds that were played and not faded out
Sounding == {h \in DOMAIN sounds : sounds[h].plays = 1 /\ sounds[h].fadeouts = 0}

\* C15 (state part): held_notes maps note keys only, each to a Sound of its
\* own that was played and not faded out, and the Sounds played and not
\* faded out are as many as the held keys.
C15_HeldNotesSound ==
    /\ DOMAIN held_notes \subseteq NoteKeys
    /\ \A key \in DOMAIN held_notes :
          /\ held_notes[key] \in Sounding
          /\ sounds[held_notes[key]].key = key
    /\ Cardinality(Sounding) = Cardinality(DOMAIN held_notes)

\* C15 (step part): a note-on is of a key that was not held and adds it; a
\* key-up of a held key removes it; a key-down of a held key synthesizes
\* nothing, plays nothing and leaves held_notes and the oscillators as they
\* are; no other event changes held_notes.
C15_HeldNotesStep ==
    CASE op'.name = "note_on" /\ err' = "none" ->
            /\ sounds'[Len(sounds')].key \notin DOMAIN held_notes
            /\ DOMAIN held_notes'
                  = DOMAIN held_notes \cup {sounds'[Len(sounds')].key}
            /\ held_notes'[sounds'[Len(sounds')].key] = Len(sounds')
            /\ Len(sounds') = Len(sounds) + 1
            /\ \A key \in DOMAIN held_notes : held_notes'[key] = held_notes[key]
      [] op'.name = "note_off" ->
            /\ sounds[op'.value].key \in DOMAIN held_notes
            /\ held_notes[sounds[op'.value].key] = op'.value
            /\ DOMAIN held_notes' = DOMAIN held_notes \ {sounds[op'.value].key}
            /\ \A key \in DOMAIN held_notes' : held_notes'[key] = held_notes[key]
      [] op'.name = "ignored_down" ->
            /\ op'.value \in NoteKeys => op'.value \in DOMAIN held_notes
            /\ held_notes' = held_notes /\ sounds' = sounds
            /\ oscillators' = oscillators /\ result' = Pending
      [] OTHER -> held_notes' = held_notes

\* C15: held_notes maps exactly the note keys whose last key-down has not
\* been followed by a key-up, each to one Sound played and not faded out; a
\* key-down of a key already held changes nothing; the Sounds played and not
\* faded out are as many as the held keys.
C15_HeldNotes == []C15_HeldNotesSound /\ [][C15_HeldNotesStep]_vars

\* C15 witness: the key-down of a key that is held, after a note had left
\* the oscillator at a phase index other than 0, with one Sound sounding.
C15_Witness ==
    /\ op.name = "ignored_down" /\ op.value = "a"
    /\ DOMAIN held_notes = {"a"} /\ Sounding = {held_notes["a"]}
    /\ oscillators[1].wavetable_index # 0

\* C17: get_sample never runs on an oscillator without an increment (it
\* would raise AttributeError): the oscillator main() starts with and the
\* one a waveform switch makes have frequency 0 and no increment, and every
\* note-on assigns the frequency before it reads, so that the oscillator has
\* its increment when the note is done.
C17_IncrementDefined ==
    /\ err # "AttributeError"
    /\ result.err # "AttributeError"
    /\ \A i \in DOMAIN oscillators :
          /\ (op.name \in {"init", "waveform"}) =>
                /\ ~oscillators[i].has_increment
                /\ oscillators[i].frequency = 0
          /\ (op.name = "note_on") =>
                /\ oscillators[i].has_increment
                /\ oscillators[i].frequency = midi_to_freq(note_number)

\* C17 witness: the first note of the run was played on the square table,
\* by the oscillator a waveform switch had made, and its buffer was handed
\* over.
C17_Witness ==
    /\ op.name = "note_on" /\ err = "none"
    /\ Len(sounds) = 1 /\ current_waveform = "square"
    /\ oscillators[1].has_increment
    /\ Len(result.val) = NoteSeconds * sampling_rate

===========================================================================
